---- MODULE Spec2Model ----
(***************************************************************************)
(* Model of examples/example.c: main() reads one integer with scanf("%d"), *)
(* rejects it unless 0 <= n <= 46, and prints fibonacci(n), computed by    *)
(* the iterative loop of fibonacci().  Lines 33-38 of the file are stray   *)
(* text after main's closing brace and belong to no function.              *)
(*                                                                         *)
(* Spec     : runs of main over input strings (with re-runs of the same    *)
(*            input as fresh processes).                                   *)
(* SpecFib  : fibonacci called directly with any argument of a range that  *)
(*            includes arguments main would reject.                        *)
(***************************************************************************)
EXTENDS Integers, Sequences, FiniteSets

VARIABLES
    input,    \* the characters on standard input
    pc,       \* position of control
    caller,   \* who called fibonacci: "main" or "direct"
    n,        \* main's local n
    fn,       \* fibonacci's parameter n
    a, b, c,  \* fibonacci's locals
    i,        \* fibonacci's loop counter
    ret,      \* value returned by fibonacci
    out,      \* what printf has written, one record per call
    status,   \* <<>> while running, <<code>> once main has returned
    iters,    \* number of executions of the loop body (history)
    depth,    \* number of active fibonacci frames (history)
    calls,    \* number of fibonacci invocations of this run (history)
    ub,       \* TRUE once a signed addition has overflowed (history)
    run,      \* number of the current run of the program
    prev      \* <<out, status>> of the previous run, <<>> in the first

vars == <<input, pc, caller, n, fn, a, b, c, i, ret, out, status,
          iters, depth, calls, ub, run, prev>>

----------------------------------------------------------------------------
(* Bounds of the model *)

\* longest input string
MaxLen == 2
\* number of runs of the program on the same input
MaxRuns == 2
\* direct calls use arguments -NLow .. NHigh
NLow == 3
NHigh == 49

----------------------------------------------------------------------------
(* Program constants *)

\* the upper limit of the range check, `n > 46`
MAX_N == 46
\* largest value of a 32-bit `int`
INT_MAX == 2147483647
INT_MIN == -INT_MAX - 1
\* <stdlib.h>
EXIT_FAILURE == 1
\* <stdio.h>
EOF == -1

\* Values an uninitialised `int` may hold.
Junk == {0, 7}

Digits == <<"0", "1", "2", "3", "4", "5", "6", "7", "8", "9">>
Alphabet == {Digits[k] : k \in 1..10} \cup {"-", "+", " ", "a"}
\* Every string of at most MaxLen characters.  So few digits always convert
\* to a value an `int` holds: the conversion never overflows here.
Inputs == UNION {[1..k -> Alphabet] : k \in 0..MaxLen}

----------------------------------------------------------------------------
(* scanf("%d", &n): skip white space, an optional sign, then decimal       *)
(* digits.  The conversion fails when no digit follows.                    *)

IsSpace(ch) == ch = " "
IsDigit(ch) == \E k \in 1..10 : Digits[k] = ch
DigitVal(ch) == (CHOOSE k \in 1..10 : Digits[k] = ch) - 1

RECURSIVE SkipSpace(_)
SkipSpace(s) ==
    IF s # <<>> /\ IsSpace(Head(s)) THEN SkipSpace(Tail(s)) ELSE s

SkipSign(s) ==
    IF s # <<>> /\ Head(s) \in {"-", "+"} THEN Tail(s) ELSE s

IsNegative(s) == s # <<>> /\ Head(s) = "-"

\* value of the longest prefix of digits of s, accumulated left to right
RECURSIVE DigitsVal(_, _)
DigitsVal(s, acc) ==
    IF s # <<>> /\ IsDigit(Head(s))
    THEN DigitsVal(Tail(s), 10 * acc + DigitVal(Head(s)))
    ELSE acc

HasDigit(s) == s # <<>> /\ IsDigit(Head(s))

\* the return value of scanf: 1 conversion, 0 on a matching failure, EOF
\* when the input ends before anything but white space was read
ScanfRet(s) ==
    LET t == SkipSpace(s) IN
    IF t = <<>> THEN EOF
    ELSE IF HasDigit(SkipSign(t)) THEN 1 ELSE 0

\* the value stored in n when the conversion succeeds
ScanfVal(s) ==
    LET t == SkipSpace(s)
        m == DigitsVal(SkipSign(t), 0)
    IN IF IsNegative(t) THEN -m ELSE m

----------------------------------------------------------------------------
(* Signed 32-bit addition.  Overflow is undefined behaviour: a build may   *)
(* wrap modulo 2^32 or trap.                                               *)

AddOverflows(x, y) ==
    IF y >= 0 THEN x > INT_MAX - y ELSE x < INT_MIN - y

WrapAdd(x, y) ==
    IF ~AddOverflows(x, y) THEN x + y
    ELSE IF y >= 0 THEN (x - INT_MAX - 1) + (y - INT_MAX - 1)
    ELSE (x + INT_MAX + 1) + (y + INT_MAX + 1)

AddOutcomes(x, y) ==
    IF AddOverflows(x, y)
    THEN {[trap |-> FALSE, val |-> WrapAdd(x, y), ub |-> TRUE],
          [trap |-> TRUE, val |-> 0, ub |-> TRUE]}
    ELSE {[trap |-> FALSE, val |-> x + y, ub |-> FALSE]}

----------------------------------------------------------------------------
(* printf records *)

Line(kind, x, v) == [kind |-> kind, n |-> x, v |-> v]
PromptLine == Line("prompt", 0, 0)
InvalidLine == Line("error_invalid", 0, 0)
RangeLine == Line("error_range", 0, 0)
ResultLine(x, v) == Line("result", x, v)

----------------------------------------------------------------------------
(* int fibonacci(int n) *)

\* a test that takes only the two base cases: `n == 0 || n == 1`
EarlyReturn_BaseOnly(x) == x = 0 \/ x = 1

\* `if (n <= 1) return n;`
EarlyReturn(x) == x <= 1

\* a loop that stops one iteration early: `i < n`
LoopCond_Strict(k, x) == k < x

\* `i <= n`
LoopCond(k, x) == k <= x

\* where control continues after fibonacci returns
ReturnTo == IF caller = "main" THEN "print" ELSE "returned"

mainVars == <<input, caller, n, out, status, run, prev, calls>>

FibCheck ==
    /\ pc = "fib_entry"
    /\ IF EarlyReturn(fn)
       THEN /\ ret' = fn
            /\ depth' = depth - 1
            /\ pc' = ReturnTo
       ELSE /\ pc' = "fib_decl"
            /\ UNCHANGED <<ret, depth>>
    /\ UNCHANGED <<fn, a, b, c, i, iters, ub>>
    /\ UNCHANGED mainVars

\* seeds (1, 1) in place of (0, 1)
FibDecl_SeedOne ==
    /\ pc = "fib_decl"
    /\ a' = 1
    /\ b' = 1
    /\ pc' = "for_init"
    /\ UNCHANGED <<fn, c, i, ret, iters, depth, ub>>
    /\ UNCHANGED mainVars

\* `int a, b = 1, c;`: a is left uninitialised
FibDecl_NoInitA ==
    /\ pc = "fib_decl"
    /\ a' = a
    /\ b' = 1
    /\ pc' = "for_init"
    /\ UNCHANGED <<fn, c, i, ret, iters, depth, ub>>
    /\ UNCHANGED mainVars

\* `int a = 0, b = 1, c;`
FibDecl ==
    /\ pc = "fib_decl"
    /\ a' = 0
    /\ b' = 1
    /\ pc' = "for_init"
    /\ UNCHANGED <<fn, c, i, ret, iters, depth, ub>>
    /\ UNCHANGED mainVars

\* `int i = 2`
FibForInit ==
    /\ pc = "for_init"
    /\ i' = 2
    /\ pc' = "for_test"
    /\ UNCHANGED <<fn, a, b, c, ret, iters, depth, ub>>
    /\ UNCHANGED mainVars

FibForTest ==
    /\ pc = "for_test"
    /\ pc' = IF LoopCond(i, fn) THEN "add" ELSE "ret_b"
    /\ UNCHANGED <<fn, a, b, c, i, ret, iters, depth, ub>>
    /\ UNCHANGED mainVars

\* `c = a + b;`
FibAdd ==
    /\ pc = "add"
    /\ \E o \in AddOutcomes(a, b) :
          /\ c' = (IF o.trap THEN c ELSE o.val)
          /\ pc' = (IF o.trap THEN "trap" ELSE "shift_a")
          /\ ub' = (ub \/ o.ub)
    /\ iters' = iters + 1
    /\ UNCHANGED <<fn, a, b, i, ret, depth>>
    /\ UNCHANGED mainVars

\* `a = c;` in place of `a = b;`
FibShiftA_FromC ==
    /\ pc = "shift_a"
    /\ a' = c
    /\ pc' = "shift_b"
    /\ UNCHANGED <<fn, b, c, i, ret, iters, depth, ub>>
    /\ UNCHANGED mainVars

\* `a = b;`
FibShiftA ==
    /\ pc = "shift_a"
    /\ a' = b
    /\ pc' = "shift_b"
    /\ UNCHANGED <<fn, b, c, i, ret, iters, depth, ub>>
    /\ UNCHANGED mainVars

\* `b = c;`
FibShiftB ==
    /\ pc = "shift_b"
    /\ b' = c
    /\ pc' = "inc"
    /\ UNCHANGED <<fn, a, c, i, ret, iters, depth, ub>>
    /\ UNCHANGED mainVars

\* `i++`
FibInc ==
    /\ pc = "inc"
    /\ i' = i + 1
    /\ pc' = "for_test"
    /\ UNCHANGED <<fn, a, b, c, ret, iters, depth, ub>>
    /\ UNCHANGED mainVars

\* `return a;` in place of `return b;`
FibReturnB_ReturnsA ==
    /\ pc = "ret_b"
    /\ ret' = a
    /\ depth' = depth - 1
    /\ pc' = ReturnTo
    /\ UNCHANGED <<fn, a, b, c, i, iters, ub>>
    /\ UNCHANGED mainVars

\* `return b;`
FibReturnB ==
    /\ pc = "ret_b"
    /\ ret' = b
    /\ depth' = depth - 1
    /\ pc' = ReturnTo
    /\ UNCHANGED <<fn, a, b, c, i, iters, ub>>
    /\ UNCHANGED mainVars

fibonacci ==
    \/ FibCheck
    \/ FibDecl
    \/ FibForInit
    \/ FibForTest
    \/ FibAdd
    \/ FibShiftA
    \/ FibShiftB
    \/ FibInc
    \/ FibReturnB

----------------------------------------------------------------------------
(* int main() *)

\* a range check that is off by one: `n < 0 || n > 47`
OutOfRange_OffByOne(x) == x < 0 \/ x > MAX_N + 1

\* `n < 0 || n > 46`
OutOfRange(x) == x < 0 \/ x > MAX_N

fibVars == <<fn, a, b, c, i, ret, iters, depth, ub>>

\* `printf("...: ");`
MainPrompt ==
    /\ pc = "prompt"
    /\ out' = Append(out, PromptLine)
    /\ pc' = "scanf"
    /\ UNCHANGED <<input, caller, n, status, run, prev, calls>>
    /\ UNCHANGED fibVars

\* a test that lets a matching failure through: `== EOF`
ScanfFailed_OnlyEOF(r) == r = EOF

\* `scanf("%d", &n) != 1`
ScanfFailed(r) == r # 1

\* `if (scanf("%d", &n) != 1)`
MainScanf ==
    /\ pc = "scanf"
    /\ IF ScanfFailed(ScanfRet(input))
       THEN /\ pc' = "invalid"
            /\ n' = n
       ELSE /\ pc' = "range"
            /\ n' = ScanfVal(input)
    /\ UNCHANGED <<input, caller, out, status, run, prev, calls>>
    /\ UNCHANGED fibVars

\* `printf("Error: ...\n");` of the scanf branch
MainInvalidPrint ==
    /\ pc = "invalid"
    /\ out' = Append(out, InvalidLine)
    /\ pc' = "invalid_ret"
    /\ UNCHANGED <<input, caller, n, status, run, prev, calls>>
    /\ UNCHANGED fibVars

\* `return EXIT_FAILURE;` of the scanf branch
MainInvalidReturn ==
    /\ pc = "invalid_ret"
    /\ status' = <<EXIT_FAILURE>>
    /\ pc' = "exit"
    /\ UNCHANGED <<input, caller, n, out, run, prev, calls>>
    /\ UNCHANGED fibVars

\* `if (n < 0 || n > 46)`
MainRangeCheck ==
    /\ pc = "range"
    /\ pc' = IF OutOfRange(n) THEN "range_err" ELSE "call"
    /\ UNCHANGED <<input, caller, n, out, status, run, prev, calls>>
    /\ UNCHANGED fibVars

\* `printf("Error: ...\n");` of the range branch
MainRangePrint ==
    /\ pc = "range_err"
    /\ out' = Append(out, RangeLine)
    /\ pc' = "range_ret"
    /\ UNCHANGED <<input, caller, n, status, run, prev, calls>>
    /\ UNCHANGED fibVars

\* the range branch without its `return`: control falls through to the call
MainRangeReturn_FallsThrough ==
    /\ pc = "range_ret"
    /\ pc' = "call"
    /\ UNCHANGED <<input, caller, n, out, status, run, prev, calls>>
    /\ UNCHANGED fibVars

\* `return EXIT_FAILURE;` of the range branch
MainRangeReturn ==
    /\ pc = "range_ret"
    /\ status' = <<EXIT_FAILURE>>
    /\ pc' = "exit"
    /\ UNCHANGED <<input, caller, n, out, run, prev, calls>>
    /\ UNCHANGED fibVars

\* the call `fibonacci(n)` in the arguments of the last printf
MainCall ==
    /\ pc = "call"
    /\ fn' = n
    /\ depth' = depth + 1
    /\ calls' = calls + 1
    /\ iters' = 0
    /\ pc' = "fib_entry"
    /\ UNCHANGED <<input, caller, n, out, status, run, prev>>
    /\ UNCHANGED <<a, b, c, i, ret, ub>>

\* the two arguments of the last printf exchanged
MainPrintResult_Swapped ==
    /\ pc = "print"
    /\ out' = Append(out, ResultLine(ret, n))
    /\ pc' = "ret0"
    /\ UNCHANGED <<input, caller, n, status, run, prev, calls>>
    /\ UNCHANGED fibVars

\* `printf("... %d ...: %d\n", n, fibonacci(n));`
MainPrintResult ==
    /\ pc = "print"
    /\ out' = Append(out, ResultLine(n, ret))
    /\ pc' = "ret0"
    /\ UNCHANGED <<input, caller, n, status, run, prev, calls>>
    /\ UNCHANGED fibVars

\* `return 0;`
MainReturn ==
    /\ pc = "ret0"
    /\ status' = <<0>>
    /\ pc' = "exit"
    /\ UNCHANGED <<input, caller, n, out, run, prev, calls>>
    /\ UNCHANGED fibVars

main ==
    \/ MainPrompt
    \/ MainScanf
    \/ MainInvalidPrint
    \/ MainInvalidReturn
    \/ MainRangeCheck
    \/ MainRangePrint
    \/ MainRangeReturn
    \/ MainCall
    \/ MainPrintResult
    \/ MainReturn

\* The program is started again on the same input, as a new process whose
\* uninitialised locals hold whatever the fresh stack holds.
Rerun ==
    /\ pc = "exit"
    /\ run < MaxRuns
    /\ run' = run + 1
    /\ prev' = <<out, status>>
    /\ out' = <<>>
    /\ status' = <<>>
    /\ pc' = "prompt"
    /\ \E g \in Junk :
          /\ n' = g
          /\ fn' = g
          /\ a' = g
          /\ b' = g
          /\ c' = g
          /\ i' = g
          /\ ret' = g
    /\ iters' = 0
    /\ depth' = 0
    /\ calls' = 0
    /\ ub' = FALSE
    /\ UNCHANGED <<input, caller>>

----------------------------------------------------------------------------
(* Specifications *)

Init ==
    /\ input \in Inputs
    /\ pc = "prompt"
    /\ caller = "main"
    /\ \E g \in Junk :
          /\ n = g
          /\ fn = g
          /\ a = g
          /\ b = g
          /\ c = g
          /\ i = g
          /\ ret = g
    /\ out = <<>>
    /\ status = <<>>
    /\ iters = 0
    /\ depth = 0
    /\ calls = 0
    /\ ub = FALSE
    /\ run = 1
    /\ prev = <<>>

Next ==
    \/ main
    \/ fibonacci
    \/ Rerun

\* a started process keeps executing until main returns
Spec == Init /\ [][Next]_vars /\ WF_vars(main \/ fibonacci)

\* fibonacci(x) called directly, for every x of -NLow .. NHigh
InitFib ==
    /\ input = <<>>
    /\ pc = "fib_entry"
    /\ caller = "direct"
    /\ fn \in (0 - NLow)..NHigh
    /\ \E g \in Junk :
          /\ n = g
          /\ a = g
          /\ b = g
          /\ c = g
          /\ i = g
          /\ ret = g
    /\ out = <<>>
    /\ status = <<>>
    /\ iters = 0
    /\ depth = 1
    /\ calls = 1
    /\ ub = FALSE
    /\ run = 1
    /\ prev = <<>>

NextFib == fibonacci

SpecFib == InitFib /\ [][NextFib]_vars /\ WF_vars(NextFib)

----------------------------------------------------------------------------
(* The standard Fibonacci sequence, F(0)=0, F(1)=1, F(k)=F(k-1)+F(k-2),    *)
(* as the table of its first k+1 terms.                                    *)

RECURSIVE FibTable(_)
FibTable(k) ==
    IF k = 0 THEN <<0>>
    ELSE IF k = 1 THEN <<0, 1>>
    ELSE LET t == FibTable(k - 1) IN Append(t, t[k] + t[k - 1])

\* F(k), for 0 <= k <= MAX_N
StdFib(k) == FibTable(k)[k + 1]

InRange(x) == 0 <= x /\ x <= MAX_N

FibPcs == {"fib_entry", "fib_decl", "for_init", "for_test", "add",
           "shift_a", "shift_b", "inc", "ret_b", "trap"}

Results == {k \in 1..Len(out) : out[k].kind = "result"}
Errors == {k \in 1..Len(out) : out[k].kind \in {"error_invalid", "error_range"}}

FailureStatus == status # <<>> /\ status # <<0>>

----------------------------------------------------------------------------
(* Claims *)

\* C1: for every n with 0 <= n <= 46 a direct call fibonacci(n) returns the
\* n-th term of the standard Fibonacci sequence; in particular it returns
\* 0, 1, 1, 55 and 1836311903 for n = 0, 1, 2, 10 and 46.
C1_FibonacciValue ==
    (pc = "returned" /\ InRange(fn)) =>
        /\ ret = StdFib(fn)
        /\ fn = 0 => ret = 0
        /\ fn = 1 => ret = 1
        /\ fn = 2 => ret = 1
        /\ fn = 10 => ret = 55
        /\ fn = 46 => ret = 1836311903

C1_Witness == pc = "returned" /\ fn = 46 /\ ret = 1836311903

\* C2: main never invokes fibonacci with an argument outside 0..46: when the
\* parsed integer is negative or greater than 46, the run makes no call of
\* fibonacci and ends with the out-of-range error as its only message and a
\* non-zero status.
C2_RangeGuard ==
    /\ (pc \in FibPcs) => InRange(fn)
    /\ (ScanfRet(input) = 1 /\ ~InRange(ScanfVal(input))) =>
          /\ calls = 0
          /\ pc \notin FibPcs \cup {"call", "print", "ret0"}
          /\ pc = "exit" => (out = <<PromptLine, RangeLine>> /\ FailureStatus)

C2_Witness ==
    /\ pc = "exit"
    /\ n = 47
    /\ calls = 0
    /\ out = <<PromptLine, RangeLine>>
    /\ status = <<EXIT_FAILURE>>

C4_Success ==
    (pc = "exit" /\ ScanfRet(input) = 1 /\ InRange(ScanfVal(input))) =>
        /\ out = <<PromptLine,
                   ResultLine(ScanfVal(input), StdFib(ScanfVal(input)))>>
        /\ status = <<0>>

C4_Witness ==
    /\ pc = "exit"
    /\ input = <<"1", "0">>
    /\ out = <<PromptLine, ResultLine(10, 55)>>
    /\ status = <<0>>

OneOutcome ==
    /\ Cardinality(Results) + Cardinality(Errors) <= 1
    /\ (status # <<>>) <=> (pc = "exit")
    /\ pc = "exit" =>
          \/ /\ Cardinality(Results) = 1
             /\ Errors = {}
             /\ status = <<0>>
             /\ \A k \in Results :
                   InRange(out[k].n) /\ out[k].v = StdFib(out[k].n)
          \/ /\ Results = {}
             /\ Cardinality(Errors) = 1
             /\ FailureStatus

\* C5: every run ends; it never prints more than one result or error line,
\* has an exit status exactly when it has ended, and ends either with one
\* correct result line, no error line and status 0, or with one error line,
\* no result line and a non-zero status.
C5_OneOutcome == []OneOutcome /\ ((pc = "prompt") ~> (pc = "exit"))

C5_Witness ==
    /\ pc = "exit"
    /\ n = 0 - 1
    /\ Results = {}
    /\ Cardinality(Errors) = 1
    /\ status = <<EXIT_FAILURE>>

\* C6: in a call fibonacci(n) with 0 <= n <= 46 no addition overflows: the
\* operands, every sum c and the returned value lie in 0 .. 2^31 - 1; and
\* F(47) = F(45) + F(46) exceeds 2^31 - 1, so the last addition of
\* fibonacci(47) overflows.
C6_NoOverflow ==
    /\ InRange(fn) =>
          /\ ~ub
          /\ pc # "trap"
          /\ pc = "add" => (0 <= a /\ 0 <= b /\ a <= INT_MAX - b)
          /\ pc \in {"shift_a", "shift_b"} => (0 <= c /\ c <= INT_MAX)
          /\ pc = "returned" => (0 <= ret /\ ret <= INT_MAX)
    /\ (fn = MAX_N + 1 /\ pc = "add" /\ i = fn) =>
          /\ a = StdFib(MAX_N - 1)
          /\ b = StdFib(MAX_N)
          /\ a > INT_MAX - b
    /\ StdFib(MAX_N - 1) > INT_MAX - StdFib(MAX_N)

C6_Witness ==
    /\ pc = "shift_a"
    /\ fn = MAX_N
    /\ i = MAX_N
    /\ c = 1836311903
    /\ ~ub

\* C7: the program has no hidden state: while fibonacci runs, nothing but
\* its own locals changes, and a run of the program on the same input as the
\* previous run ends with the same output and the same exit status,
\* whatever the uninitialised locals held at its start.
C7_Deterministic ==
    [][/\ (pc \in FibPcs) =>
             UNCHANGED <<input, caller, n, out, status, run, prev, calls>>
       /\ (pc' = "exit" /\ run' > 1) => prev' = <<out', status'>>]_vars

C7_Witness ==
    /\ pc = "exit"
    /\ run = 2
    /\ calls = 1
    /\ n = 46
    /\ prev = <<out, status>>
    /\ Results # {}

\* C8: a call fibonacci(n) with 0 <= n <= 46 returns; no second frame of
\* fibonacci is ever active; the loop body has run n - 1 times at the return
\* when n >= 2, and not at all when n is 0 or 1.
C8_LinearTermination ==
    /\ [](InRange(fn) =>
            /\ depth <= 1
            /\ iters <= (IF fn >= 2 THEN fn - 1 ELSE 0)
            /\ pc = "returned" =>
                  (depth = 0 /\ iters = (IF fn >= 2 THEN fn - 1 ELSE 0)))
    /\ InRange(fn) => <>(pc = "returned")

C8_Witness == pc = "returned" /\ fn = 46 /\ iters = 45 /\ depth = 0

\* C9: in a call fibonacci(n) with 2 <= n <= 46, (a, b) starts as (0, 1);
\* at the start of the iteration with counter i, a = F(i-2) and b = F(i-1);
\* at its end a = F(i-1) and b = F(i); at the exit of the loop i = n + 1
\* and the returned b is F(n).
C9_LoopInvariant ==
    (2 <= fn /\ fn <= MAX_N) =>
        /\ pc = "for_init" => (a = 0 /\ b = 1)
        /\ pc = "for_test" =>
              /\ 2 <= i /\ i <= fn + 1
              /\ a = StdFib(i - 2)
              /\ b = StdFib(i - 1)
        /\ pc = "add" =>
              /\ 2 <= i /\ i <= fn
              /\ a = StdFib(i - 2)
              /\ b = StdFib(i - 1)
        /\ pc = "inc" =>
              /\ 2 <= i /\ i <= fn
              /\ a = StdFib(i - 1)
              /\ b = StdFib(i)
        /\ pc = "ret_b" => (i = fn + 1 /\ b = StdFib(fn))
        /\ pc = "returned" => ret = StdFib(fn)

C9_Witness == pc = "inc" /\ fn = 46 /\ i = 10 /\ a = 34 /\ b = 55

\* C10, as stated: fibonacci called with an argument outside 0..46 does not
\* return a value.
C10_Revalidates == ~InRange(fn) => pc # "returned"

\* C10, amended: fibonacci does not check its argument.  Called with a
\* negative n it returns n itself without entering the loop; called with
\* n > 46 it cannot finish without an addition that overflows.
C10_NoRevalidation ==
    /\ fn < 0 =>
          /\ pc \in {"fib_entry", "returned"}
          /\ pc = "returned" => (ret = fn /\ iters = 0 /\ ~ub)
    /\ (fn > MAX_N /\ pc \in {"returned", "trap"}) => ub

C10_Witness == pc = "returned" /\ fn = 0 - 1 /\ ret = 0 - 1 /\ iters = 0

====
